---- MODULE Spec2Model ----
(***************************************************************************)
(* Model of the SameGame board engine (src/src/board.rs).                  *)
(*                                                                         *)
(* A Board is a record [w, h, cells]; cells is the flat buffer, indexed    *)
(* from 0 as in the source, stored column by column, and inside a column   *)
(* from y = h-1 (buffer offset 0) to y = 0 (buffer offset h-1).            *)
(***************************************************************************)
EXTENDS Integers, Sequences, FiniteSets, TLC

VARIABLES
    board,      \* the Board owned by the caller (NoBoard before construction)
    op,         \* the operation that produced this state
    ax, ay,     \* the arguments of the last random (w, h), query or erase (x, y)
    removed,    \* value returned by the last erase_component
    comp,       \* value returned by the last calc_component
    fin,        \* value returned by the last is_finished
    outcome,    \* outcome of the last parse
    pre,        \* the Board as it was when the last operation was called
    mid,        \* the Board when the erase traversal (and rollback) ended
    input,      \* the text handed to the last parse
    erases,     \* the number of erases the play loop has done
    size,       \* GameState: <<BOARD_W, BOARD_H>>
    cursor,     \* GameState.cursor
    cmd,        \* GameState.cmd
    score,      \* GameState.score
    pscore,     \* GameState.score when the last update was called
    calls,      \* the coordinates the last handler passed to the Board
    status      \* "running", "quit" after event::quit, "panicked" after a panic

bvars == <<board, op, ax, ay, removed, comp, fin, outcome, pre, mid, input>>

gvars == <<size, cursor, cmd, score, pscore, calls, status>>

vars == <<board, op, ax, ay, removed, comp, fin, outcome, pre, mid, input,
          erases, size, cursor, cmd, score, pscore, calls, status>>

----------------------------------------------------------------------------
(* Program constants and bounds *)

CELL_NB == 6

MaxW == 3
MaxH == 3
MaxCells == 6
MaxRandCells == 4
MaxDigit == 2
MaxGameCells == 3
MaxScore == 2
MaxGameColor == 2

----------------------------------------------------------------------------
(* Storage *)

NoCells == [i \in {} |-> 0]

NoBoard == [w |-> 0, h |-> 0, cells |-> NoCells]

xy2idx_h(h, x, y) == h * x + (h - 1 - y)

xy2idx(b, x, y) == xy2idx_h(b.h, x, y)

at(b, x, y) == b.cells[xy2idx(b, x, y)]

replace(b, x, y, color) ==
    [b EXCEPT !.cells = [b.cells EXCEPT ![xy2idx(b, x, y)] = color]]

\* variant: the last row is never stepped to
neighbor_short(b, x, y) ==
    (IF x > 0 THEN <<(<<x - 1, y>>)>> ELSE <<>>) \o
    (IF x < b.w - 1 THEN <<(<<x + 1, y>>)>> ELSE <<>>) \o
    (IF y > 0 THEN <<(<<x, y - 1>>)>> ELSE <<>>) \o
    (IF y < b.h - 2 THEN <<(<<x, y + 1>>)>> ELSE <<>>)

\* variant: the step to x-1 left out
neighbor_no_left(b, x, y) ==
    (IF x < b.w - 1 THEN <<(<<x + 1, y>>)>> ELSE <<>>) \o
    (IF y > 0 THEN <<(<<x, y - 1>>)>> ELSE <<>>) \o
    (IF y < b.h - 1 THEN <<(<<x, y + 1>>)>> ELSE <<>>)

neighbor(b, x, y) ==
    (IF x > 0 THEN <<(<<x - 1, y>>)>> ELSE <<>>) \o
    (IF x < b.w - 1 THEN <<(<<x + 1, y>>)>> ELSE <<>>) \o
    (IF y > 0 THEN <<(<<x, y - 1>>)>> ELSE <<>>) \o
    (IF y < b.h - 1 THEN <<(<<x, y + 1>>)>> ELSE <<>>)

----------------------------------------------------------------------------
(* calc_component: recursive flood fill with a per-query done[] array *)

RECURSIVE calc_rec(_, _, _, _), calc_loop(_, _, _, _, _)

calc_rec(b, st, x, y) ==
    LET st1 == [v    |-> Append(st.v, <<x, y>>),
                done |-> [st.done EXCEPT ![xy2idx(b, x, y)] = TRUE]]
    IN  calc_loop(b, st1, x, y, neighbor(b, x, y))

calc_loop(b, st, x, y, ns) ==
    IF ns = <<>> THEN st
    ELSE LET xx == Head(ns)[1]
             yy == Head(ns)[2]
         IN  IF st.done[xy2idx(b, xx, yy)]
               THEN calc_loop(b, st, x, y, Tail(ns))
             ELSE IF at(b, x, y) # at(b, xx, yy)
               THEN calc_loop(b, st, x, y, Tail(ns))
             ELSE calc_loop(b, calc_rec(b, st, xx, yy), x, y, Tail(ns))

\* variant: a group of one cell is returned as it is
calc_component_keeps_singleton(b, x, y) ==
    IF at(b, x, y) = 0 THEN <<>>
    ELSE LET st0 == [v |-> <<>>, done |-> [i \in 0..(b.w * b.h - 1) |-> FALSE]]
         IN  calc_rec(b, st0, x, y).v

calc_component(b, x, y) ==
    IF at(b, x, y) = 0 THEN <<>>
    ELSE LET st0 == [v |-> <<>>, done |-> [i \in 0..(b.w * b.h - 1) |-> FALSE]]
             res == calc_rec(b, st0, x, y).v
         IN  IF Len(res) = 1 THEN <<>> ELSE res

----------------------------------------------------------------------------
(* is_finished: full scan, comparing each nonzero cell with (x-1,y), (x,y-1) *)

\* variant: only the neighbour at x-1 is compared
is_finished_left_only(b) ==
    ~ \E x \in 0..(b.w - 1), y \in 0..(b.h - 1) :
        /\ at(b, x, y) # 0
        /\ x > 0 /\ at(b, x, y) = at(b, x - 1, y)

is_finished(b) ==
    ~ \E x \in 0..(b.w - 1), y \in 0..(b.h - 1) :
        /\ at(b, x, y) # 0
        /\ \/ (x > 0 /\ at(b, x, y) = at(b, x - 1, y))
           \/ (y > 0 /\ at(b, x, y) = at(b, x, y - 1))

----------------------------------------------------------------------------
(* erase_component: destructive flood fill, rollback of a singleton,       *)
(* then pack_cellwise and pack_colwise                                     *)

RECURSIVE erase_rec(_, _, _), erase_loop(_, _, _), erase_loop_last_only(_, _, _)

\* rec(this, x, y): st = [b, res]; returns the board and the count
erase_rec(b, x, y) ==
    LET color == at(b, x, y)
        b1    == replace(b, x, y, 0)
    IN  erase_loop([b |-> b1, res |-> 1], color, neighbor(b1, x, y))

\* variant: the count of a recursive call replaces the running count
erase_loop_last_only(st, color, ns) ==
    IF ns = <<>> THEN st
    ELSE LET xx == Head(ns)[1]
             yy == Head(ns)[2]
         IN  IF at(st.b, xx, yy) # color
               THEN erase_loop_last_only(st, color, Tail(ns))
             ELSE LET r == erase_rec(st.b, xx, yy)
                  IN  erase_loop_last_only([b |-> r.b, res |-> 1 + r.res],
                                           color, Tail(ns))

erase_loop(st, color, ns) ==
    IF ns = <<>> THEN st
    ELSE LET xx == Head(ns)[1]
             yy == Head(ns)[2]
         IN  IF at(st.b, xx, yy) # color
               THEN erase_loop(st, color, Tail(ns))
             ELSE LET r == erase_rec(st.b, xx, yy)
                  IN  erase_loop([b |-> r.b, res |-> st.res + r.res],
                                 color, Tail(ns))

\* variant: the single overwritten cell is not restored
erase_traverse_no_rollback(b, x, y) ==
    LET color == at(b, x, y)
    IN  IF color = 0 THEN [b |-> b, res |-> 0]
        ELSE LET r == erase_rec(b, x, y)
             IN  IF r.res = 1 THEN [b |-> r.b, res |-> 0] ELSE r

\* the traversal and the rollback of a group of one cell
erase_traverse(b, x, y) ==
    LET color == at(b, x, y)
    IN  IF color = 0 THEN [b |-> b, res |-> 0]
        ELSE LET r == erase_rec(b, x, y)
             IN  IF r.res = 1
                   THEN [b |-> replace(r.b, x, y, color), res |-> 0]
                   ELSE r

swap(f, i, j) == [f EXCEPT ![i] = f[j], ![j] = f[i]]

RECURSIVE partition_loop_inverted(_, _, _, _, _)

\* variant: the test of the partition inverted, the empty cells come first
partition_loop_inverted(cells, base, h, i, j) ==
    IF j >= h THEN cells
    ELSE IF cells[base + j] = 0
      THEN partition_loop_inverted(swap(cells, base + i, base + j),
                                   base, h, i + 1, j + 1)
      ELSE partition_loop_inverted(cells, base, h, i, j + 1)

RECURSIVE partition_loop(_, _, _, _, _)

\* the stable_partition loop over one chunk that starts at buffer offset base
partition_loop(cells, base, h, i, j) ==
    IF j >= h THEN cells
    ELSE IF cells[base + j] # 0
      THEN partition_loop(swap(cells, base + i, base + j), base, h, i + 1, j + 1)
      ELSE partition_loop(cells, base, h, i, j + 1)

RECURSIVE cellwise_loop(_, _, _)

cellwise_loop(b, cells, c) ==
    IF c >= b.w THEN cells
    ELSE cellwise_loop(b, partition_loop(cells, b.h * c, b.h, 0, 0), c + 1)

\* variant: no falling
pack_cellwise_skipped(b) == b

pack_cellwise(b) == [b EXCEPT !.cells = cellwise_loop(b, b.cells, 0)]

RECURSIVE colwise_loop_keep_source(_, _, _, _)

\* variant: the source column is not cleared after the copy
colwise_loop_keep_source(b, cells, x, x_target) ==
    IF x >= b.w THEN cells
    ELSE LET i_target == xy2idx(b, x_target, b.h - 1)
             i        == xy2idx(b, x, b.h - 1)
             empty    == \A k \in 0..(b.h - 1) : cells[i + k] = 0
         IN  IF empty THEN colwise_loop_keep_source(b, cells, x + 1, x_target)
             ELSE IF x_target # x
               THEN LET copied == [n \in DOMAIN cells |->
                                     IF n >= i_target /\ n < i_target + b.h
                                       THEN cells[i + (n - i_target)]
                                     ELSE cells[n]]
                    IN  colwise_loop_keep_source(b, copied, x + 1, x_target + 1)
               ELSE colwise_loop_keep_source(b, cells, x + 1, x_target + 1)

RECURSIVE colwise_loop(_, _, _, _)

colwise_loop(b, cells, x, x_target) ==
    IF x >= b.w THEN cells
    ELSE LET i_target == xy2idx(b, x_target, b.h - 1)
             i        == xy2idx(b, x, b.h - 1)
             empty    == \A k \in 0..(b.h - 1) : cells[i + k] = 0
         IN  IF empty THEN colwise_loop(b, cells, x + 1, x_target)
             ELSE IF x_target # x
               THEN LET copied == [n \in DOMAIN cells |->
                                     IF n >= i_target /\ n < i_target + b.h
                                       THEN cells[i + (n - i_target)]
                                     ELSE IF n >= i /\ n < i + b.h THEN 0
                                     ELSE cells[n]]
                    IN  colwise_loop(b, copied, x + 1, x_target + 1)
               ELSE colwise_loop(b, cells, x + 1, x_target + 1)

\* variant: no shifting of columns
pack_colwise_skipped(b) == b

pack_colwise(b) == [b EXCEPT !.cells = colwise_loop(b, b.cells, 0, 0)]

erase_component(b, x, y) ==
    LET t == erase_traverse(b, x, y)
    IN  IF t.res = 0 THEN [b |-> t.b, res |-> 0, mid |-> t.b]
        ELSE [b |-> pack_colwise(pack_cellwise(t.b)), res |-> t.res, mid |-> t.b]

----------------------------------------------------------------------------
(* Construction *)

Coords(b) == (0..(b.w - 1)) \X (0..(b.h - 1))

Dims(maxCells) ==
    {d \in (1..MaxW) \X (1..MaxH) : d[1] * d[2] <= maxCells}

\* variant: the colours drawn with Uniform::new_inclusive(1, CELL_NB)
RandomCells_inclusive(w, h) == [0..(w * h - 1) -> 1..CELL_NB]

\* the buffers iter::repeat_with(|| dist.sample(..)).take(w * h) can yield
\* with dist = Uniform::new(1, CELL_NB)
RandomCells(w, h) == [0..(w * h - 1) -> 1..(CELL_NB - 1)]

random(w, h, cells) == [w |-> w, h |-> h, cells |-> cells]

\* A text is [header, lines]: header is the first line as the sequence of
\* tokens split_ascii_whitespace yields, lines are the following lines as
\* BufRead::lines yields them; tokens and lines are sequences of characters.

Digits == <<"0", "1", "2", "3", "4", "5", "6", "7", "8", "9">>

\* char::to_digit(10)
to_digit(c) == (CHOOSE k \in 1..10 : Digits[k] = c) - 1

IsDigit(c) == \E k \in 1..10 : Digits[k] = c

RECURSIVE digits_value(_, _)

digits_value(tok, acc) ==
    IF tok = <<>> THEN acc
    ELSE digits_value(Tail(tok), 10 * acc + to_digit(Head(tok)))

\* str::parse::<usize>: an optional '+', then one or more decimal digits
parse_usize(tok) ==
    LET body == IF tok # <<>> /\ Head(tok) = "+" THEN Tail(tok) ELSE tok
    IN  IF body = <<>> \/ \E k \in 1..Len(body) : ~IsDigit(body[k])
          THEN [ok |-> FALSE, val |-> 0]
          ELSE [ok |-> TRUE, val |-> digits_value(body, 0)]

Failure(kind) == [kind |-> kind, board |-> NoBoard]

RECURSIVE parse_chars_flipped(_, _, _, _, _, _)

\* variant: the text row is stored at y = h-1-row
parse_chars_flipped(w, h, cells, line, x, y) ==
    IF x >= Len(line) THEN [kind |-> "ok", cells |-> cells]
    ELSE LET c == line[x + 1]
             i == xy2idx_h(h, x, h - 1 - y)
         IN  IF c \notin {"0", "1", "2", "3", "4", "5"}
               THEN [kind |-> "invalid char", cells |-> cells]
             ELSE IF i \notin DOMAIN cells
               THEN [kind |-> "panic", cells |-> cells]
             ELSE parse_chars_flipped(w, h, [cells EXCEPT ![i] = to_digit(c)],
                                      line, x + 1, y)

RECURSIVE parse_chars(_, _, _, _, _, _), parse_lines(_, _, _, _, _)

\* for (x, c) in line.chars().enumerate()
parse_chars(w, h, cells, line, x, y) ==
    IF x >= Len(line) THEN [kind |-> "ok", cells |-> cells]
    ELSE LET c == line[x + 1]
             i == xy2idx_h(h, x, y)
         IN  IF c \notin {"0", "1", "2", "3", "4", "5"}
               THEN [kind |-> "invalid char", cells |-> cells]
             ELSE IF i \notin DOMAIN cells
               THEN [kind |-> "panic", cells |-> cells]
             ELSE parse_chars(w, h, [cells EXCEPT ![i] = to_digit(c)],
                              line, x + 1, y)

\* for y in 0..h
parse_lines(w, h, cells, lines, y) ==
    IF y >= h THEN [kind |-> "ok", board |-> [w |-> w, h |-> h, cells |-> cells]]
    ELSE IF y >= Len(lines) THEN Failure("incomplete input")
    ELSE LET r == parse_chars(w, h, cells, lines[y + 1], 0, y)
         IN  IF r.kind # "ok" THEN Failure(r.kind)
             ELSE parse_lines(w, h, r.cells, lines, y + 1)

parse(text) ==
    LET it == text.header
        pw == parse_usize(it[1])
        ph == parse_usize(it[2])
    IN  IF Len(it) < 1 THEN Failure("format error")
        ELSE IF ~pw.ok THEN Failure("ParseIntError")
        ELSE IF Len(it) < 2 THEN Failure("format error")
        ELSE IF ~ph.ok THEN Failure("ParseIntError")
        ELSE IF Len(it) > 2 THEN Failure("format error")
        ELSE IF ~(pw.val > 0) THEN Failure("w must be positive")
        ELSE IF ~(ph.val > 0) THEN Failure("h must be positive")
        ELSE parse_lines(pw.val, ph.val,
                         [i \in 0..(pw.val * ph.val - 1) |-> 0],
                         text.lines, 0)

----------------------------------------------------------------------------
(* The texts handed to parse *)

Num(n) == <<Digits[n + 1]>>

BaseChars == {Digits[k + 1] : k \in 0..MaxDigit}

EdgeChars == {"5", "6", "x"}

OddHeaders ==
    { <<>>, <<Num(2)>>, <<Num(2), Num(1), Num(1)>>, <<<<"x">>, Num(1)>>,
      <<Num(1), <<"x">>>>, <<Num(0), Num(2)>>, <<Num(2), Num(0)>>,
      <<<<"0", "2">>, Num(1)>>, <<<<"+", "1">>, Num(2)>>, <<<<"+">>, Num(2)>>,
      <<<<"-", "1">>, Num(2)>>, <<Num(1), Num(2), <<"x">>>> }

Grid(w, h, chars) == [1..h -> [1..w -> chars]]

SetChar(g, r, c, ch) == [g EXCEPT ![r][c] = ch]

CutLine(g, r, n) == [g EXCEPT ![r] = SubSeq(g[r], 1, n)]

AddChar(g, r, ch) == [g EXCEPT ![r] = Append(g[r], ch)]

\* every grid of w x h base characters; and every grid of "1" and "2" with
\* one character replaced, one line cut short, one line extended, the last
\* lines missing, or one more line
Lines(w, h) ==
    LET G == Grid(w, h, {"1", "2"})
    IN  Grid(w, h, BaseChars)
        \cup {SetChar(g, r, c, ch) : g \in G, r \in 1..h, c \in 1..w, ch \in EdgeChars}
        \cup {CutLine(g, r, n) : g \in G, r \in 1..h, n \in 0..(w - 1)}
        \cup {AddChar(g, r, ch) : g \in G, r \in 1..h, ch \in {"0", "1", "x"}}
        \cup {SubSeq(g, 1, n) : g \in G, n \in 0..(h - 1)}
        \cup {Append(g, l) : g \in G, l \in {<<>>, <<"1">>, <<"x">>}}

\* the two texts of the tests in board.rs
TestTexts ==
    { [header |-> <<(<<"4">>), (<<"3">>)>>,
       lines  |-> << <<"0", "1", "2", "3">>,
                     <<"1", "2", "3", "4">>,
                     <<"2", "3", "4", "5">> >>],
      [header |-> <<(<<"4">>), (<<"3">>)>>,
       lines  |-> << <<"2", "1", "0", "2">>,
                     <<"1", "1", "5", "4">>,
                     <<"5", "1", "3", "5">> >>] }

Texts ==
    UNION {{[header |-> <<Num(d[1]), Num(d[2])>>, lines |-> l] :
                l \in Lines(d[1], d[2])} : d \in Dims(MaxCells)}
    \cup {[header |-> hd, lines |-> l] :
            hd \in OddHeaders, l \in {<<>>, <<<<"1">>, <<"2">>>>, <<<<"1", "2">>>>}}
    \cup TestTexts

NoInput == [header |-> <<>>, lines |-> <<>>]

----------------------------------------------------------------------------
(* Actions *)

\* the GameState variables when there is no GameState
NoGame ==
    /\ size = <<0, 0>>
    /\ cursor = <<0, 0>>
    /\ cmd = [tag |-> "Nop", x |-> 0, y |-> 0]
    /\ score = 0
    /\ pscore = 0
    /\ calls = {}
    /\ status = "none"

Init ==
    /\ board = NoBoard
    /\ op = "new"
    /\ ax = 0 /\ ay = 0
    /\ removed = 0
    /\ comp = <<>>
    /\ fin = FALSE
    /\ outcome = "none"
    /\ pre = NoBoard
    /\ mid = NoBoard
    /\ input = NoInput
    /\ erases = 0
    /\ NoGame

HasBoard == board.w > 0

\* Board::random(w, h): every cell drawn from Uniform::new(1, CELL_NB)
Random ==
    /\ op = "new"
    /\ \E d \in Dims(MaxRandCells) :
         \E cells \in RandomCells(d[1], d[2]) :
            /\ ax' = d[1] /\ ay' = d[2]
            /\ board' = random(d[1], d[2], cells)
    /\ op' = "random"
    /\ pre' = board
    /\ UNCHANGED <<removed, comp, fin, outcome, mid, input>>
    /\ UNCHANGED <<erases, gvars>>

\* Board::parse(text): a Board on success, none on an error or a panic
Parse ==
    /\ op = "new"
    /\ \E text \in Texts :
         LET r == parse(text)
         IN  /\ input' = text
             /\ outcome' = r.kind
             /\ board' = r.board
    /\ op' = "parse"
    /\ pre' = board
    /\ UNCHANGED <<ax, ay, removed, comp, fin, mid>>
    /\ UNCHANGED <<erases, gvars>>

CalcComponent ==
    /\ HasBoard
    /\ \E x \in 0..(board.w - 1), y \in 0..(board.h - 1) :
         /\ ax' = x /\ ay' = y
         /\ comp' = calc_component(board, x, y)
    /\ op' = "calc"
    /\ pre' = board
    /\ removed' = 0 /\ fin' = FALSE /\ mid' = NoBoard
    /\ outcome' = "none" /\ input' = NoInput
    /\ UNCHANGED board
    /\ UNCHANGED <<erases, gvars>>

IsFinished ==
    /\ HasBoard
    /\ fin' = is_finished(board)
    /\ op' = "finished"
    /\ pre' = board
    /\ ax' = 0 /\ ay' = 0 /\ removed' = 0 /\ comp' = <<>> /\ mid' = NoBoard
    /\ outcome' = "none" /\ input' = NoInput
    /\ UNCHANGED board
    /\ UNCHANGED <<erases, gvars>>

EraseComponent ==
    /\ HasBoard
    /\ \E x \in 0..(board.w - 1), y \in 0..(board.h - 1) :
         LET r == erase_component(board, x, y)
         IN  /\ ax' = x /\ ay' = y
             /\ board' = r.b
             /\ removed' = r.res
             /\ mid' = r.mid
    /\ op' = "erase"
    /\ pre' = board
    /\ comp' = <<>> /\ fin' = FALSE
    /\ outcome' = "none" /\ input' = NoInput
    /\ UNCHANGED <<erases, gvars>>

Next ==
    \/ Random
    \/ Parse
    \/ CalcComponent
    \/ IsFinished
    \/ EraseComponent

Spec == Init /\ [][Next]_vars

----------------------------------------------------------------------------
(* The play loop: while !is_finished() { erase some component } *)

\* the condition of the loop
PlayGuard == HasBoard /\ ~is_finished(board)

PlayErase ==
    /\ PlayGuard
    /\ \E x \in 0..(board.w - 1), y \in 0..(board.h - 1) :
         /\ calc_component(board, x, y) # <<>>
         /\ LET r == erase_component(board, x, y)
            IN  /\ ax' = x /\ ay' = y
                /\ board' = r.b
                /\ removed' = r.res
                /\ mid' = r.mid
    /\ erases' = erases + 1
    /\ op' = "erase"
    /\ pre' = board
    /\ comp' = <<>> /\ fin' = FALSE
    /\ outcome' = "none" /\ input' = NoInput
    /\ UNCHANGED gvars

PlayNext ==
    \/ Random
    \/ Parse
    \/ EraseComponent
    \/ PlayErase

\* the loop keeps going while its condition holds: weak fairness of
\* PlayErase, WF_vars(PlayErase), with ENABLED <<PlayErase>>_vars written as
\* the condition of the loop (C13 checks that a component to erase exists
\* whenever the condition holds)
PlayFair == []<>~PlayGuard \/ []<><<PlayErase>>_vars

PlaySpec == Init /\ [][PlayNext]_vars /\ PlayFair

----------------------------------------------------------------------------
(* GameState (src/src/game_state.rs): the event handlers over one Board *)

\* the side of a tile in pixels
TILE == 32

\* usize::max_value(); usize values are written as residues modulo 2^64,
\* so that 2^64 - 1 is -1
USIZE_MAX == -1

CURSOR_INVALID == <<USIZE_MAX, USIZE_MAX>>

Nop == [tag |-> "Nop", x |-> 0, y |-> 0]

Erase(x, y) == [tag |-> "Erase", x |-> x, y |-> y]

Reset == [tag |-> "Reset", x |-> 0, y |-> 0]

Quit == [tag |-> "Quit", x |-> 0, y |-> 0]

\* variant: the comparison with the size of the board is strict
calc_cursor_strict(b, x, y) ==
    IF x < 0 \/ y < 0 THEN CURSOR_INVALID
    ELSE LET cx == x \div TILE
             cy == y \div TILE
         IN  IF cx > b.w \/ cy > b.h THEN CURSOR_INVALID ELSE <<cx, cy>>

\* x and y are pointer positions in whole pixels; "x as usize" of a position
\* that is not negative drops the fraction
calc_cursor(b, x, y) ==
    IF x < 0 \/ y < 0 THEN CURSOR_INVALID
    ELSE LET cx == x \div TILE
             cy == y \div TILE
         IN  IF cx >= b.w \/ cy >= b.h THEN CURSOR_INVALID ELSE <<cx, cy>>

\* an index the Board accepts; any other one panics in xy2idx or cells[i]
InBounds(b, x, y) == x >= 0 /\ x < b.w /\ y >= 0 /\ y < b.h

\* the builds of the program: overflow checks on (panic) or off (wrap)
Builds == {"debug", "release"}

\* (n - 1).pow(2) as i32 on the usize n: with overflow checks 0 - 1 panics;
\* without them it wraps to 2^64 - 1 (the residue -1), whose square wraps
\* to 1, and the cast keeps the low 32 bits
score_gain(n, build) ==
    IF n < 1 /\ build = "debug" THEN [panic |-> TRUE, val |-> 0]
    ELSE [panic |-> FALSE, val |-> (n - 1) * (n - 1)]

\* pointer positions along an axis of n cells: left of the window, inside
\* the first cell, the last pixel of the last cell, the first one past it
Pixels(n) == {-1, TILE - 1, TILE * n - 1, TILE * n}

\* the draws of the generator a game starts from
GameCells(w, h) == [0..(w * h - 1) -> 1..MaxGameColor]

\* GameState::new
GameInit ==
    /\ \E d \in Dims(MaxGameCells) : \E cells \in GameCells(d[1], d[2]) :
          /\ size = d
          /\ board = random(d[1], d[2], cells)
    /\ cursor = CURSOR_INVALID
    /\ cmd = Nop
    /\ score = 0
    /\ pscore = 0
    /\ calls = {}
    /\ status = "running"
    /\ op = "new"
    /\ ax = 0 /\ ay = 0
    /\ removed = 0
    /\ comp = <<>>
    /\ fin = FALSE
    /\ outcome = "none"
    /\ pre = NoBoard
    /\ mid = NoBoard
    /\ input = NoInput
    /\ erases = 0

\* what a handler leaves of the records of the Board operations
NoBoardCall ==
    /\ removed' = 0 /\ comp' = <<>> /\ pre' = NoBoard
    /\ UNCHANGED <<fin, outcome, mid, input, erases, size>>

MouseMotion ==
    /\ status = "running"
    /\ \E x \in Pixels(board.w), y \in Pixels(board.h) :
         cursor' = calc_cursor(board, x, y)
    /\ op' = "motion"
    /\ ax' = 0 /\ ay' = 0 /\ calls' = {}
    /\ NoBoardCall
    /\ UNCHANGED <<board, cmd, score, pscore, status>>

MouseButtonDown ==
    /\ status = "running"
    /\ \E button \in {"Left", "Right"}, x \in Pixels(board.w), y \in Pixels(board.h) :
         /\ ax' = x /\ ay' = y
         /\ IF button # "Left" THEN cmd' = cmd
            ELSE LET c == calc_cursor(board, x, y)
                 IN  IF c # CURSOR_INVALID THEN cmd' = Erase(c[1], c[2])
                     ELSE cmd' = cmd
    /\ op' = "button"
    /\ calls' = {}
    /\ NoBoardCall
    /\ UNCHANGED <<board, cursor, score, pscore, status>>

KeyDown ==
    /\ status = "running"
    /\ \E keycode \in {"Escape", "Q", "R", "A"}, repeat \in BOOLEAN :
         IF repeat THEN cmd' = cmd
         ELSE IF keycode \in {"Escape", "Q"} THEN cmd' = Quit
         ELSE IF keycode = "R" THEN cmd' = Reset
         ELSE cmd' = cmd
    /\ op' = "key"
    /\ ax' = 0 /\ ay' = 0 /\ calls' = {}
    /\ NoBoardCall
    /\ UNCHANGED <<board, cursor, score, pscore, status>>

UpdateErase ==
    /\ cmd.tag = "Erase"
    /\ op' = "update_erase"
    /\ ax' = 0 /\ ay' = 0
    /\ calls' = {<<cmd.x, cmd.y>>}
    /\ pscore' = score
    /\ pre' = board
    /\ comp' = <<>>
    /\ IF ~InBounds(board, cmd.x, cmd.y)
         THEN /\ status' = "panicked"
              /\ removed' = 0
              /\ UNCHANGED <<board, score, cmd>>
         ELSE LET r == erase_component(board, cmd.x, cmd.y)
              IN  /\ board' = r.b
                  /\ removed' = r.res
                  /\ \E build \in Builds :
                       LET g == score_gain(r.res, build)
                       IN  IF g.panic
                             THEN /\ status' = "panicked"
                                  /\ UNCHANGED <<score, cmd>>
                             ELSE /\ r.res = 0 => score < MaxScore
                                  /\ score' = score + g.val
                                  /\ cmd' = Nop
                                  /\ UNCHANGED status
    /\ UNCHANGED <<fin, outcome, mid, input, erases, size, cursor>>

UpdateOther ==
    /\ cmd.tag # "Erase"
    /\ op' = "update"
    /\ ax' = 0 /\ ay' = 0 /\ calls' = {}
    /\ pscore' = score
    /\ IF cmd.tag = "Reset"
         THEN /\ \E cells \in GameCells(size[1], size[2]) :
                    board' = random(size[1], size[2], cells)
              /\ score' = 0
              /\ UNCHANGED status
         ELSE IF cmd.tag = "Quit"
         THEN /\ status' = "quit"
              /\ UNCHANGED <<board, score>>
         ELSE UNCHANGED <<board, score, status>>
    /\ cmd' = Nop
    /\ NoBoardCall
    /\ UNCHANGED cursor

\* EventHandler::update
Update ==
    /\ status = "running"
    /\ (UpdateErase \/ UpdateOther)

\* EventHandler::draw
Draw ==
    /\ status = "running"
    /\ op' = "draw"
    /\ ax' = 0 /\ ay' = 0
    /\ calls' = Coords(board) \cup (IF cursor # CURSOR_INVALID THEN {cursor} ELSE {})
    /\ IF cursor = CURSOR_INVALID
         THEN comp' = <<>> /\ UNCHANGED status
         ELSE IF InBounds(board, cursor[1], cursor[2])
         THEN comp' = calc_component(board, cursor[1], cursor[2]) /\ UNCHANGED status
         ELSE comp' = <<>> /\ status' = "panicked"
    /\ removed' = 0 /\ pre' = NoBoard
    /\ UNCHANGED <<board, cursor, cmd, score, pscore>>
    /\ UNCHANGED <<fin, outcome, mid, input, erases, size>>

GameNext ==
    \/ MouseMotion
    \/ MouseButtonDown
    \/ KeyDown
    \/ Update
    \/ Draw

GameSpec == GameInit /\ [][GameNext]_vars

----------------------------------------------------------------------------
(* Reference notions the properties are stated with *)

Abs(n) == IF n < 0 THEN -n ELSE n

Adjacent(p, q) == Abs(p[1] - q[1]) + Abs(p[2] - q[2]) = 1

RECURSIVE Grow(_, _, _)

\* least set containing S and closed under steps to adjacent cells of colour c
Grow(b, c, S) ==
    LET T == S \cup {q \in Coords(b) :
                       at(b, q[1], q[2]) = c /\ \E p \in S : Adjacent(p, q)}
    IN  IF T = S THEN S ELSE Grow(b, c, T)

\* the same-coloured 4-connected group of (x, y)
Group(b, x, y) == Grow(b, at(b, x, y), {<<x, y>>})

\* a group that can be erased: nonzero colour, two cells or more
Erasable(b, x, y) == at(b, x, y) # 0 /\ Cardinality(Group(b, x, y)) >= 2

Range(s) == {s[k] : k \in 1..Len(s)}

NonZero(v) == v # 0

Zeros(n) == [k \in 1..n |-> 0]

\* the row the cells fall to: the row of the last text line
BottomY(b) == b.h - 1

\* column x of b without the cells of G, read from the bottom row upwards
ColumnUp(b, G, x) ==
    [k \in 1..b.h |->
        IF <<x, BottomY(b) - (k - 1)>> \in G THEN 0
        ELSE at(b, x, BottomY(b) - (k - 1))]

Settled(col) ==
    LET kept == SelectSeq(col, NonZero)
    IN  kept \o Zeros(Len(col) - Len(kept))

NonEmptyCol(col) == \E k \in 1..Len(col) : col[k] # 0

\* the columns (left to right, each bottom-up) of the reference result
RefColumns(b, G) ==
    LET cols == [x \in 1..b.w |-> Settled(ColumnUp(b, G, x - 1))]
        kept == SelectSeq(cols, NonEmptyCol)
    IN  kept \o [k \in 1..(b.w - Len(kept)) |-> Zeros(b.h)]

MatchesColumns(b, cols) ==
    \A p \in Coords(b) : at(b, p[1], p[2]) = cols[p[1] + 1][BottomY(b) - p[2] + 1]

SameShape(a, b) == a.w = b.w /\ a.h = b.h /\ DOMAIN a.cells = DOMAIN b.cells

\* the cells whose value differs between two boards of the same shape
Changed(a, b) == {p \in Coords(a) : at(a, p[1], p[2]) # at(b, p[1], p[2])}

----------------------------------------------------------------------------
(* Properties *)

\* C1: erase_component on a cell of a group G of two or more same-coloured
\* cells leaves the reference result: G deleted, every column's survivors in
\* order against the bottom row, the non-empty columns in order against x = 0.
C1_EraseMatchesReference ==
    (op = "erase" /\ Erasable(pre, ax, ay)) =>
        /\ SameShape(pre, board)
        /\ MatchesColumns(board, RefColumns(pre, Group(pre, ax, ay)))

\* an erase after which cells have fallen and a column has moved left
C1_Witness ==
    /\ op = "erase" /\ Erasable(pre, ax, ay)
    /\ \E x \in 0..(pre.w - 1) :
          /\ \A y \in 0..(pre.h - 1) : <<x, y>> \in Group(pre, ax, ay)
          /\ x < pre.w - 1 /\ at(board, x, BottomY(board)) # 0
    /\ \E p \in Coords(pre) \ Group(pre, ax, ay) :
          at(pre, p[1], p[2]) # 0 /\ at(mid, p[1], p[2] + 1) = 0 /\ p[2] < BottomY(pre)

\* the result of tests::component in board.rs
C1_TestWitness ==
    /\ op = "erase" /\ removed = 4 /\ board.w = 4 /\ board.h = 3
    /\ board.cells = [i \in 0..11 |-> <<5, 2, 0, 3, 5, 0, 5, 4, 2, 0, 0, 0>>[i + 1]]

\* C2: erase_component on an empty cell or on a cell without a same-coloured
\* orthogonal neighbour returns 0 and leaves width, height and cells unchanged.
C2_NoOpErase ==
    (op = "erase" /\ ~Erasable(pre, ax, ay)) => (removed = 0 /\ board = pre)

\* a refused erase of an isolated nonzero cell on a board with a floating cell
C2_Witness ==
    /\ op = "erase" /\ removed = 0 /\ at(pre, ax, ay) # 0
    /\ \E p \in Coords(pre) :
          at(pre, p[1], p[2]) # 0 /\ p[2] < BottomY(pre) /\ at(pre, p[1], p[2] + 1) = 0

\* C3: erase_component returns the number of coordinates calc_component gives
\* on the board before the call (never 1), and the traversal zeroes exactly
\* those coordinates.
C3_EraseAgreesWithQuery ==
    op = "erase" =>
        /\ removed = Len(calc_component(pre, ax, ay))
        /\ removed # 1
        /\ SameShape(pre, mid)
        /\ Changed(pre, mid) = Range(calc_component(pre, ax, ay))
        /\ \A p \in Changed(pre, mid) : at(mid, p[1], p[2]) = 0

C3_Witness ==
    /\ op = "erase" /\ removed >= 3
    /\ \E q \in Coords(pre) : at(pre, q[1], q[2]) = at(pre, ax, ay) /\ at(mid, q[1], q[2]) # 0

\* C4: calc_component returns nothing for an empty cell or a cell without a
\* same-coloured orthogonal neighbour; otherwise it lists, without repetition,
\* exactly the cells of the group of (x, y).
C4_CalcComponentIsGroup ==
    op = "calc" =>
        IF Erasable(board, ax, ay)
          THEN /\ Range(comp) = Group(board, ax, ay)
               /\ Len(comp) = Cardinality(Group(board, ax, ay))
          ELSE comp = <<>>

\* a query on a group that bends, so that a cell is met from two sides
C4_Witness ==
    /\ op = "calc" /\ Len(comp) >= 4
    /\ \E p \in Range(comp), q \in Range(comp) : p[1] # q[1] /\ p[2] # q[2]

\* a query on a one-wide board that finds a group
C4_NarrowWitness == op = "calc" /\ board.w = 1 /\ Len(comp) >= 2

\* C5: is_finished returns true exactly when no cell has an erasable group.
C5_FinishedIffNoComponent ==
    op = "finished" =>
        /\ fin <=> \A p \in Coords(board) : calc_component(board, p[1], p[2]) = <<>>
        /\ fin <=> \A p \in Coords(board) : erase_component(board, p[1], p[2]).res = 0
        /\ fin <=> \A p \in Coords(board) : ~Erasable(board, p[1], p[2])

\* finished on an entirely empty board
C5_Witness ==
    /\ op = "finished" /\ fin
    /\ \A p \in Coords(board) : at(board, p[1], p[2]) = 0

C5_UnfinishedWitness ==
    /\ op = "finished" /\ ~fin
    /\ \E p \in Coords(board) : p[2] > 0 /\ at(board, p[1], p[2]) # 0
                                 /\ at(board, p[1], p[2]) = at(board, p[1], p[2] - 1)

ColEmpty(b, x) == \A y \in 0..(b.h - 1) : at(b, x, y) = 0

\* no empty cell between a nonzero cell and the row the cells fall to
GravityApplied(b) ==
    \A x \in 0..(b.w - 1), y \in 0..(b.h - 1) :
        at(b, x, y) = 0 => \A y2 \in 0..(y - 1) : at(b, x, y2) = 0

\* no entirely empty column to the left of a non-empty column
ColumnsCompacted(b) ==
    ~ \E x1 \in 0..(b.w - 1), x2 \in 0..(b.w - 1) :
        x1 < x2 /\ ColEmpty(b, x1) /\ ~ColEmpty(b, x2)

Stable(b) == GravityApplied(b) /\ ColumnsCompacted(b)

\* C6 (as stated): after an erase that returns more than 0, in every column
\* an empty cell at y has only empty cells at every y' > y.
C6_GravityTowardsLowY ==
    (op = "erase" /\ removed > 0) =>
        \A x \in 0..(board.w - 1), y \in 0..(board.h - 1) :
            at(board, x, y) = 0 =>
                \A y2 \in (y + 1)..(board.h - 1) : at(board, x, y2) = 0

\* C6 (amended): after an erase that returns more than 0, in every column
\* an empty cell at y has only empty cells at every y' < y: cells fall
\* towards y = height-1.
C6_GravityTowardsHighY ==
    (op = "erase" /\ removed > 0) =>
        \A x \in 0..(board.w - 1), y \in 0..(board.h - 1) :
            at(board, x, y) = 0 =>
                \A y2 \in 0..(y - 1) : at(board, x, y2) = 0

\* an erase that left a cell hanging over a hole, which then fell
C6_Witness ==
    /\ op = "erase" /\ removed > 0
    /\ \E x \in 0..(mid.w - 1), y \in 0..(mid.h - 2) :
          at(mid, x, y) # 0 /\ at(mid, x, y + 1) = 0
    /\ \E x \in 0..(board.w - 1) : ~ColEmpty(board, x) /\ at(board, x, 0) = 0

\* C7: after an erase that returns more than 0 there are no columns x1 < x2
\* with x1 entirely empty and x2 not.
C7_ColumnsCompacted ==
    (op = "erase" /\ removed > 0) => ColumnsCompacted(board)

\* an erase that emptied a column with a non-empty column to its right
C7_Witness ==
    /\ op = "erase" /\ removed > 0
    /\ ~ColumnsCompacted(mid)
    /\ \E x \in 0..(board.w - 1) : ~ColEmpty(board, x)

\* C8 (as stated): every erase_component call, returning 0 or more, on a
\* board from random or from parse, leaves the board stable.
C8_EveryCallLeavesStable ==
    op = "erase" => Stable(board)

\* C8 (amended): every erase_component call that returns more than 0, and
\* every call on a board that was stable when it was called, leaves the
\* board stable.
C8_ErasedOrStableLeavesStable ==
    (op = "erase" /\ (removed > 0 \/ Stable(pre))) => Stable(board)

\* an erase on a parsed board that was not stable, stable afterwards
C8_Witness ==
    /\ op = "erase" /\ removed > 0
    /\ ~GravityApplied(pre) /\ ~ColumnsCompacted(pre)
    /\ Stable(board)

ParsedOk == op = "parse" /\ outcome = "ok"

\* C9 (as stated): after a successful parse the character at data row r,
\* column c is the value of at(c, height-1-r).
C9_FirstLineAtTop ==
    ParsedOk =>
        \A r \in 0..(board.h - 1) : \A c \in 0..(Len(input.lines[r + 1]) - 1) :
            at(board, c, board.h - 1 - r) = to_digit(input.lines[r + 1][c + 1])

\* C9 (amended): after a successful parse the character at data row r,
\* column c is the value of at(c, r): the first text line is read back at
\* y = 0 and the last at y = height-1.
C9_RowIsY ==
    ParsedOk =>
        \A r \in 0..(board.h - 1) : \A c \in 0..(Len(input.lines[r + 1]) - 1) :
            at(board, c, r) = to_digit(input.lines[r + 1][c + 1])

\* a parsed text whose first and last lines differ
C9_Witness ==
    /\ ParsedOk /\ board.h >= 2 /\ board.w >= 2
    /\ \E c \in 1..board.w :
          /\ Len(input.lines[1]) = board.w /\ Len(input.lines[board.h]) = board.w
          /\ input.lines[1][c] # input.lines[board.h][c]

Min(a, b) == IF a < b THEN a ELSE b

ValidCell(c) == c \in {"0", "1", "2", "3", "4", "5"}

\* the text without the characters after the first w of a line and without
\* the lines after the h-th
Trimmed(text, w, h) ==
    [text EXCEPT !.lines =
        [r \in 1..Min(h, Len(text.lines)) |->
            SubSeq(text.lines[r], 1, Min(w, Len(text.lines[r])))]]

\* a header of two positive integers, h lines or more, and valid characters
\* in the first w places of the first h lines
NeededPartValid(text) ==
    /\ Len(text.header) = 2
    /\ parse_usize(text.header[1]).ok /\ parse_usize(text.header[1]).val > 0
    /\ parse_usize(text.header[2]).ok /\ parse_usize(text.header[2]).val > 0
    /\ LET w == parse_usize(text.header[1]).val
           h == parse_usize(text.header[2]).val
       IN  /\ Len(text.lines) >= h
           /\ \A r \in 1..h : \A c \in 1..Min(w, Len(text.lines[r])) :
                 ValidCell(text.lines[r][c])

\* C10: when the needed part of the text is valid, parse succeeds and returns
\* the board it returns for the text without the surplus characters and lines.
C10_SurplusIgnored ==
    (op = "parse" /\ NeededPartValid(input)) =>
        LET w == parse_usize(input.header[1]).val
            h == parse_usize(input.header[2]).val
        IN  /\ outcome = "ok"
            /\ board = parse(Trimmed(input, w, h)).board

HeaderOk(text) ==
    /\ Len(text.header) = 2
    /\ parse_usize(text.header[1]).ok /\ parse_usize(text.header[1]).val > 0
    /\ parse_usize(text.header[2]).ok /\ parse_usize(text.header[2]).val > 0

DeclaredW(text) == parse_usize(text.header[1]).val

DeclaredH(text) == parse_usize(text.header[2]).val

\* a character outside '0'..'5' in one of the data rows parse consumes
BadCell(text) ==
    \E r \in 1..Min(DeclaredH(text), Len(text.lines)) :
        \E c \in 1..Len(text.lines[r]) : ~ValidCell(text.lines[r][c])

TooFewLines(text) == Len(text.lines) < DeclaredH(text)

\* the errors of the header: the two "format error" contexts, the error of
\* str::parse and the two ensure! messages
HeaderErrors ==
    {"format error", "ParseIntError", "w must be positive", "h must be positive"}

\* C11: parse fails with a header error for a bad header, with the invalid
\* cell error for a character outside '0'..'5' in a consumed row, with the
\* incomplete input error for fewer than height lines; a failure returns no
\* Board, and every other text returns a Board of the declared size.
C11_ParseClassified ==
    op = "parse" =>
        /\ ~HeaderOk(input) => outcome \in HeaderErrors
        /\ (HeaderOk(input) /\ BadCell(input) /\ ~TooFewLines(input)) =>
              outcome = "invalid char"
        /\ (HeaderOk(input) /\ ~BadCell(input) /\ TooFewLines(input)) =>
              outcome = "incomplete input"
        /\ (HeaderOk(input) /\ BadCell(input) /\ TooFewLines(input)) =>
              outcome \in {"invalid char", "incomplete input"}
        /\ outcome # "ok" => board = NoBoard
        /\ (HeaderOk(input) /\ ~BadCell(input) /\ ~TooFewLines(input)) =>
              /\ outcome = "ok"
              /\ board.w = DeclaredW(input) /\ board.h = DeclaredH(input)

\* C12: parse returns a Board only when each of the height data lines has
\* width characters or more.
C12_ShortLineRefused ==
    ParsedOk =>
        \A r \in 1..board.h : Len(input.lines[r]) >= board.w

\* C14: random(w, h) returns a w x h board with every cell in 1..5; every
\* board reached has a buffer of width*height cells with values in 0..5, and
\* no query or erase changes width or height.
C14_ShapeAndRange ==
    /\ op = "random" =>
          /\ board.w = ax /\ board.h = ay
          /\ \A i \in DOMAIN board.cells : board.cells[i] \in 1..5
    /\ HasBoard =>
          /\ DOMAIN board.cells = 0..(board.w * board.h - 1)
          /\ \A i \in DOMAIN board.cells : board.cells[i] \in 0..5
    /\ op \in {"erase", "calc", "finished"} =>
          board.w = pre.w /\ board.h = pre.h

\* an erase on a board that was full, leaving a 5 and an empty cell
C14_Witness ==
    /\ op = "erase" /\ removed > 0
    /\ \A i \in DOMAIN pre.cells : pre.cells[i] # 0
    /\ \E i \in DOMAIN board.cells : board.cells[i] = 5
    /\ \E i \in DOMAIN board.cells : board.cells[i] = 0

C14_RandomWitness ==
    /\ op = "random" /\ ax = 1 /\ ay = 3
    /\ \E i \in DOMAIN board.cells : board.cells[i] = 5

\* C16: every member of the group returned by a query returns the same group,
\* and an erase at any member of the group returns the same count and leaves
\* the same board.
C16_MemberIndependent ==
    /\ op = "calc" =>
          \A p \in Range(comp) :
              Range(calc_component(board, p[1], p[2])) = Range(comp)
    /\ op = "erase" =>
          \A p \in Range(calc_component(pre, ax, ay)) :
              /\ erase_component(pre, p[1], p[2]).res = removed
              /\ erase_component(pre, p[1], p[2]).b = board

\* an erase of a group of three or more that spans two columns
C16_Witness ==
    /\ op = "erase" /\ removed >= 3
    /\ \E p \in Range(calc_component(pre, ax, ay)) : p[1] # ax
    /\ \E p \in Range(calc_component(pre, ax, ay)) : p[2] # ay

NonZeroCount(b) == Cardinality({i \in DOMAIN b.cells : b.cells[i] # 0})

\* C13: an erase that returns n removes exactly n nonzero cells and n is not
\* 1; the play loop does at most width*height/2 erases, finds a component to
\* erase whenever is_finished() is false, and always reaches a board on which
\* is_finished() is true.
C13_PlayTerminates ==
    /\ [](op = "erase" =>
            /\ removed # 1
            /\ NonZeroCount(board) = NonZeroCount(pre) - removed)
    /\ [](HasBoard => 2 * erases <= board.w * board.h)
    /\ [](PlayGuard =>
            \E p \in Coords(board) : calc_component(board, p[1], p[2]) # <<>>)
    /\ [](HasBoard => <>is_finished(board))

\* a play loop that ended after three erases
C13_Witness ==
    /\ HasBoard /\ is_finished(board) /\ erases >= 3 /\ op = "erase"

InGrid(c) == c[1] \in 0..(board.w - 1) /\ c[2] \in 0..(board.h - 1)

\* a pointer position that is not over a cell of the board
OffGrid(x, y) == x < 0 \/ y < 0 \/ x >= TILE * board.w \/ y >= TILE * board.h

\* C15: an update with Erase(x, y) never panics on its arithmetic; it leaves
\* the score unchanged when erase_component returns 0 and adds (n-1)^2 when
\* it returns n >= 2.
C15_ScoreArithmeticSafe ==
    op = "update_erase" =>
        /\ status # "panicked"
        /\ removed = 0 => score = pscore
        /\ removed >= 2 => score = pscore + (removed - 1) * (removed - 1)

\* C17: every coordinate a handler passes to the Board, a pending Erase and
\* a valid cursor are inside the board; a button press off the grid leaves
\* the command as it was.
C17_CallsInBounds ==
    /\ [](/\ \A c \in calls : InGrid(c)
          /\ cmd.tag = "Erase" => InGrid(<<cmd.x, cmd.y>>)
          /\ cursor # CURSOR_INVALID => InGrid(cursor))
    /\ [][(op' = "button" /\ OffGrid(ax', ay')) => cmd' = cmd]_vars

\* after a Reset, an erase at the cell of the last column and row and a draw
\* with the cursor on the board
C17_Witness ==
    /\ op = "draw" /\ cursor = <<size[1] - 1, size[2] - 1>> /\ size[1] > 1
    /\ cursor \in calls
    /\ cmd.tag = "Erase" /\ cmd.x = size[1] - 1 /\ cmd.y = size[2] - 1
    /\ score > 0

====
